---- MODULE Spec2Model ----
(***************************************************************************)
(* The in-memory banking engine of src/main.py: the module-level           *)
(* dictionaries (accounts, ledger, account_locks, idempotency_store,       *)
(* rate_limits) and the request handlers deposit, withdraw, transfer,      *)
(* get_balance, get_transactions and account_summary, run by worker        *)
(* threads.  A handler is cut into one action per *)
(* statement; an augmented assignment (x[k] += v) is a read followed by a  *)
(* write, and a helper that is called (ensure_account, get_lock,           *)
(* check_rate_limit) contributes its own statements.                       *)
(***************************************************************************)
EXTENDS Integers, Sequences, FiniteSets, TLC

\* ------------------------------------------------------------------ limits
PER_TRANSFER_MAX == 10000
DAILY_TRANSFER_LIMIT == 25000
IDEMPOTENCY_TTL_SECONDS == 86400
RATE_LIMIT_PER_MINUTE == 10
RATE_WINDOW_SECONDS == 60
SECONDS_PER_DAY == 86400

\* ------------------------------------------------------------------ bounds
NumAccounts == 3
NumThreads == 2

\* Account ids are strings in the source; here they are 1..NumAccounts and
\* sorted() on ids is the order of the integers.
AccountIds == 1..NumAccounts
Threads == 1..NumThreads

\* The idempotency-key header: "" is the absent (falsy) header.
NoKey == ""

VARIABLES
    accounts,           \* dict account_id -> balance
    ledger,             \* dict account_id -> list of entries
    account_locks,      \* dict account_id -> lock object (its identity)
    idempotency_store,  \* dict key -> [response, expires_at]
    rate_limits,        \* dict account_id -> list of timestamps
    locked,             \* the lock objects that are currently held
    nLocks,             \* lock objects constructed so far
    nTx,                \* uuid4() values drawn so far
    now,                \* the clock behind time.time() and datetime.utcnow()
    pc,                 \* thread -> the statement it is at
    req,                \* thread -> the request it is serving
    loc,                \* thread -> the handler's local variables
    phases,             \* the client's batches of requests still to be started
    todo,               \* thread -> the requests of this batch it has still to issue
    ticks,              \* the clock advances still to come
    base,               \* the store, and the length of history, when the batch started
    history             \* the calls made and the responses returned, in order

vars == <<accounts, ledger, account_locks, idempotency_store, rate_limits,
          locked, nLocks, nTx, now, pc, req, loc, phases, todo, ticks, base, history>>

globals == <<accounts, ledger, account_locks, idempotency_store, rate_limits>>
client == <<phases, todo, ticks, base>>

\* ----------------------------------------------------------------- requests
DepositReq(a, n) == [op |-> "deposit", from |-> a, to |-> a, amount |-> n, key |-> NoKey]
WithdrawReq(a, n) == [op |-> "withdraw", from |-> a, to |-> a, amount |-> n, key |-> NoKey]
TransferReq(a, b, n, k) == [op |-> "transfer", from |-> a, to |-> b, amount |-> n, key |-> k]
NoReq == [op |-> "none", from |-> 0, to |-> 0, amount |-> 0, key |-> NoKey]
BalanceReq(a) == [op |-> "balance", from |-> a, to |-> a, amount |-> 0, key |-> NoKey]
SummaryReq(a) == [op |-> "summary", from |-> a, to |-> a, amount |-> 0, key |-> NoKey]
TransactionsReq(a, l, c) ==
    [op |-> "transactions", from |-> a, to |-> a, amount |-> 0, key |-> NoKey,
     limit |-> l, cursor |-> c]

\* The body of a response that carries none of interest, and Python's None
\* against an integer value.
NoBody == [items |-> <<>>]
None == {}
Some(n) == {n}

\* The locals of a handler and of the helpers it calls.
Loc0 ==
    [arg |-> 0,         \* account_id parameter of ensure_account / get_lock
     ret |-> "idle",    \* where the helper returns to
     lock |-> 0,        \* the value get_lock returned
     first |-> 0,       \* lock held by the (outer) with
     second |-> 0,      \* lock held by the inner with of transfer
     tmp |-> 0,         \* the value read by a += / -= before it is written
     entries |-> <<>>,  \* get_transactions' local `entries`
     daily |-> 0,       \* account_summary's local `daily_total`
     ts |-> <<>>,       \* check_rate_limit's local list `timestamps`
     tx |-> 0,          \* tx_id
     stamp |-> 0,       \* timestamp
     bal |-> 0,         \* balance_after of the entry being built
     status |-> 0,      \* HTTP status of the response being returned
     detail |-> ""]     \* detail of the exception raised

\* ------------------------------------------------------------ pure helpers
Has(d, k) == k \in DOMAIN d

Put(d, k, v) == (k :> v) @@ d

RECURSIVE SumAmounts(_)
SumAmounts(s) == IF s = <<>> THEN 0 ELSE s[1].amount + SumAmounts(Tail(s))

Abs(n) == IF n < 0 THEN -n ELSE n

DateOf(t) == t \div SECONDS_PER_DAY

\* A daily total that counts every entry of the day, whatever its type.
RECURSIVE DailyTotalAnyType(_, _)
DailyTotalAnyType(s, today) ==
    IF s = <<>> THEN 0
    ELSE (IF DateOf(s[1].timestamp) = today THEN Abs(s[1].amount) ELSE 0)
         + DailyTotalAnyType(Tail(s), today)

\* get_daily_transfer_total, evaluated at clock reading t.
RECURSIVE DailyTotalOf(_, _)
DailyTotalOf(s, today) ==
    IF s = <<>> THEN 0
    ELSE (IF s[1].type = "transfer_out" /\ DateOf(s[1].timestamp) = today
          THEN Abs(s[1].amount) ELSE 0) + DailyTotalOf(Tail(s), today)

get_daily_transfer_total(account_id) ==
    DailyTotalOf(IF Has(ledger, account_id) THEN ledger[account_id] ELSE <<>>,
                 DateOf(now))

Min(a, b) == IF a <= b THEN a ELSE b
Max(a, b) == IF a >= b THEN a ELSE b

\* Python's s[i:j] on a list: a negative index counts from the end, an index
\* outside the list is clamped, and an empty range gives the empty list.
PyIndex(n, i) == IF i < 0 THEN Max(n + i, 0) ELSE Min(i, n)

\* A slice that takes the element at its upper bound as well.
PySliceInclusive(s, i, j) == SubSeq(s, PyIndex(Len(s), i) + 1, PyIndex(Len(s), j + 1))

\* Python's s[i:j]: the elements at the positions from i up to, not including, j.
PySlice(s, i, j) == SubSeq(s, PyIndex(Len(s), i) + 1, PyIndex(Len(s), j))

\* A window that keeps a timestamp that is exactly 60 seconds old.
RecentInclusive(s, t) == SelectSeq(s, LAMBDA x : t - x <= RATE_WINDOW_SECONDS)

\* check_rate_limit line 76: the timestamps younger than 60 seconds.
Recent(s, t) == SelectSeq(s, LAMBDA x : t - x < RATE_WINDOW_SECONDS)

\* A lookup that still answers from the cache at the expiry instant.
IdemHitInclusive(key) ==
    Has(idempotency_store, key) /\ idempotency_store[key].expires_at >= now

\* check_idempotency: the cached response, or None.
IdemHit(key) == Has(idempotency_store, key) /\ idempotency_store[key].expires_at > now

\* ------------------------------------------------------- control transfer
\* A helper returns to a continuation.  A continuation that is itself a call
\* (the next statement of the handler calls ensure_account or get_lock) is
\* resolved to the helper's first statement with its argument.
Resolve(r, k) ==
    CASE k = "dep_lock" -> [pc |-> "gl_check", arg |-> r.from, ret |-> "dep_acquire"]
      [] k = "wd_lock" -> [pc |-> "gl_check", arg |-> r.from, ret |-> "wd_acquire"]
      [] k = "tr_ensure_to" -> [pc |-> "ea_check", arg |-> r.to, ret |-> "tr_rate"]
      [] OTHER -> [pc |-> k, arg |-> 0, ret |-> "idle"]

\* Thread t continues at continuation k with locals l.
Goto(t, l, k) ==
    LET n == Resolve(req[t], k) IN
    /\ pc' = [pc EXCEPT ![t] = n.pc]
    /\ loc' = [loc EXCEPT ![t] = [l EXCEPT !.arg = n.arg, !.ret = n.ret]]

\* Thread t stays in the same function, at statement p, with locals l.
Step(t, l, p) ==
    /\ pc' = [pc EXCEPT ![t] = p]
    /\ loc' = [loc EXCEPT ![t] = l]

\* The handler returns (or its exception reaches the framework): the response
\* is recorded and the thread is free for its next request.
FinishWith(t, status, detail, tx, body) ==
    /\ history' = Append(history, [ev |-> "ret", t |-> t, req |-> req[t], status |-> status,
                                   detail |-> detail, tx_id |-> tx,
                                   cached |-> (pc[t] = "tr_idem"),
                                   time |-> now, body |-> body])
    /\ pc' = [pc EXCEPT ![t] = "idle"]
    /\ loc' = [loc EXCEPT ![t] = Loc0]
    /\ req' = [req EXCEPT ![t] = NoReq]

Finish(t, status, detail, tx) == FinishWith(t, status, detail, tx, NoBody)

\* --------------------------------------------------------------- scheduling
\* A worker thread picks up its next request.
Begin(t) ==
    /\ pc[t] = "idle"
    /\ todo[t] # <<>>
    /\ LET r == Head(todo[t]) IN
       /\ req' = [req EXCEPT ![t] = r]
       /\ todo' = [todo EXCEPT ![t] = Tail(@)]
       /\ history' = Append(history, [ev |-> "call", t |-> t, req |-> r, status |-> 0,
                                      detail |-> "", tx_id |-> 0, cached |-> FALSE,
                                      time |-> now, body |-> NoBody])
       /\ pc' = [pc EXCEPT ![t] = IF r.op = "transfer" THEN "tr_limit" ELSE "ea_check"]
       /\ loc' = [loc EXCEPT ![t] =
               IF r.op = "transfer" THEN Loc0
               ELSE [Loc0 EXCEPT !.arg = r.from,
                                 !.ret = CASE r.op = "deposit" -> "dep_lock"
                                           [] r.op = "withdraw" -> "wd_lock"
                                           [] r.op = "balance" -> "bal_return"
                                           [] r.op = "transactions" -> "txs_slice"
                                           [] OTHER -> "sum_daily"]]
    /\ UNCHANGED <<globals, locked, nLocks, nTx, now, phases, ticks, base>>

\* The client starts its next batch of requests once every response of the
\* previous batch is in (the tests' thread.start() ... thread.join()).
StartPhase ==
    /\ phases # <<>>
    /\ \A t \in Threads : pc[t] = "idle" /\ todo[t] = <<>>
    /\ todo' = Head(phases)
    /\ phases' = Tail(phases)
    /\ base' = [accounts |-> accounts, ledger |-> ledger,
                idempotency_store |-> idempotency_store, rate_limits |-> rate_limits,
                at |-> Len(history)]
    /\ UNCHANGED <<globals, locked, nLocks, nTx, now, pc, req, loc, ticks, history>>

\* Time passes.
Tick ==
    /\ ticks # <<>>
    /\ now' = now + Head(ticks)
    /\ ticks' = Tail(ticks)
    /\ UNCHANGED <<globals, locked, nLocks, nTx, pc, req, loc, phases, todo, base, history>>

\* ------------------------------------------------------------ ensure_account
\* line 109: if account_id not in accounts
EnsureCheck(t) ==
    /\ pc[t] = "ea_check"
    /\ IF Has(accounts, loc[t].arg)
       THEN Goto(t, loc[t], loc[t].ret)
       ELSE Step(t, loc[t], "ea_balance")
    /\ UNCHANGED <<globals, locked, nLocks, nTx, now, req, client, history>>

\* line 110: accounts[account_id] = 0
EnsureSetBalance(t) ==
    /\ pc[t] = "ea_balance"
    /\ accounts' = Put(accounts, loc[t].arg, 0)
    /\ Step(t, loc[t], "ea_ledger")
    /\ UNCHANGED <<ledger, account_locks, idempotency_store, rate_limits,
                   locked, nLocks, nTx, now, req, client, history>>

\* line 111: ledger[account_id] = []
EnsureSetLedger(t) ==
    /\ pc[t] = "ea_ledger"
    /\ ledger' = Put(ledger, loc[t].arg, <<>>)
    /\ Goto(t, loc[t], loc[t].ret)
    /\ UNCHANGED <<accounts, account_locks, idempotency_store, rate_limits,
                   locked, nLocks, nTx, now, req, client, history>>

\* ------------------------------------------------------------------ get_lock
\* line 67: if account_id not in account_locks
GetLockCheck(t) ==
    /\ pc[t] = "gl_check"
    /\ Step(t, loc[t], IF Has(account_locks, loc[t].arg) THEN "gl_return" ELSE "gl_create")
    /\ UNCHANGED <<globals, locked, nLocks, nTx, now, req, client, history>>

\* line 68: account_locks[account_id] = threading.Lock()
GetLockCreate(t) ==
    /\ pc[t] = "gl_create"
    /\ nLocks' = nLocks + 1
    /\ account_locks' = Put(account_locks, loc[t].arg, nLocks + 1)
    /\ Step(t, loc[t], "gl_return")
    /\ UNCHANGED <<accounts, ledger, idempotency_store, rate_limits,
                   locked, nTx, now, req, client, history>>

\* line 69: return account_locks[account_id]
GetLockReturn(t) ==
    /\ pc[t] = "gl_return"
    /\ Goto(t, [loc[t] EXCEPT !.lock = account_locks[loc[t].arg]], loc[t].ret)
    /\ UNCHANGED <<globals, locked, nLocks, nTx, now, req, client, history>>

\* ------------------------------------------------------------------- deposit
\* line 137: with lock  (blocks while the lock object is held)
DepositAcquire(t) ==
    /\ pc[t] = "dep_acquire"
    /\ loc[t].lock \notin locked
    /\ locked' = locked \cup {loc[t].lock}
    /\ Step(t, [loc[t] EXCEPT !.first = loc[t].lock], "dep_read")
    /\ UNCHANGED <<globals, nLocks, nTx, now, req, client, history>>

\* line 138, the read of accounts[req.account_id] += req.amount
DepositRead(t) ==
    /\ pc[t] = "dep_read"
    /\ Step(t, [loc[t] EXCEPT !.tmp = accounts[req[t].from] + req[t].amount], "dep_write")
    /\ UNCHANGED <<globals, locked, nLocks, nTx, now, req, client, history>>

\* line 138, the write of accounts[req.account_id] += req.amount
DepositWrite(t) ==
    /\ pc[t] = "dep_write"
    /\ accounts' = [accounts EXCEPT ![req[t].from] = loc[t].tmp]
    /\ Step(t, loc[t], "dep_entry")
    /\ UNCHANGED <<ledger, account_locks, idempotency_store, rate_limits,
                   locked, nLocks, nTx, now, req, client, history>>

\* lines 139-145: entry = {tx_id, type, amount, balance_after, timestamp}
DepositEntry(t) ==
    /\ pc[t] = "dep_entry"
    /\ nTx' = nTx + 1
    /\ Step(t, [loc[t] EXCEPT !.tx = nTx + 1, !.bal = accounts[req[t].from], !.stamp = now],
            "dep_append")
    /\ UNCHANGED <<globals, locked, nLocks, now, req, client, history>>

\* line 146: ledger[req.account_id].append(entry); a KeyError when the ledger
\* of the account is not there leaves the with block as an exception.
DepositAppend(t) ==
    /\ pc[t] = "dep_append"
    /\ IF Has(ledger, req[t].from)
       THEN /\ ledger' = [ledger EXCEPT ![req[t].from] = Append(@,
                    [tx_id |-> loc[t].tx, type |-> "deposit", amount |-> req[t].amount,
                     balance_after |-> loc[t].bal, timestamp |-> loc[t].stamp])]
            /\ Step(t, [loc[t] EXCEPT !.status = 200], "dep_release")
       ELSE /\ ledger' = ledger
            /\ Step(t, [loc[t] EXCEPT !.status = 500, !.detail = "KeyError"], "dep_release")
    /\ UNCHANGED <<accounts, account_locks, idempotency_store, rate_limits,
                   locked, nLocks, nTx, now, req, client, history>>

\* the end of the with block (line 146) and return entry (line 148)
DepositRelease(t) ==
    /\ pc[t] = "dep_release"
    /\ locked' = locked \ {loc[t].first}
    /\ Finish(t, loc[t].status, loc[t].detail, loc[t].tx)
    /\ UNCHANGED <<globals, nLocks, nTx, now, client>>

\* ------------------------------------------------------------------ withdraw
\* line 156: with lock
WithdrawAcquire(t) ==
    /\ pc[t] = "wd_acquire"
    /\ loc[t].lock \notin locked
    /\ locked' = locked \cup {loc[t].lock}
    /\ Step(t, [loc[t] EXCEPT !.first = loc[t].lock], "wd_check")
    /\ UNCHANGED <<globals, nLocks, nTx, now, req, client, history>>

\* A funds check that turns down the withdrawal of the whole balance.
InsufficientInclusive(balance, amount) == balance <= amount

\* line 157: accounts[req.account_id] < req.amount
Insufficient(balance, amount) == balance < amount

\* lines 157-158: if accounts[req.account_id] < req.amount: raise 400
WithdrawCheck(t) ==
    /\ pc[t] = "wd_check"
    /\ IF Insufficient(accounts[req[t].from], req[t].amount)
       THEN Step(t, [loc[t] EXCEPT !.status = 400, !.detail = "Insufficient funds"],
                 "wd_release")
       ELSE Step(t, loc[t], "wd_read")
    /\ UNCHANGED <<globals, locked, nLocks, nTx, now, req, client, history>>

\* line 160, the read of accounts[req.account_id] -= req.amount
WithdrawRead(t) ==
    /\ pc[t] = "wd_read"
    /\ Step(t, [loc[t] EXCEPT !.tmp = accounts[req[t].from] - req[t].amount], "wd_write")
    /\ UNCHANGED <<globals, locked, nLocks, nTx, now, req, client, history>>

\* line 160, the write of accounts[req.account_id] -= req.amount
WithdrawWrite(t) ==
    /\ pc[t] = "wd_write"
    /\ accounts' = [accounts EXCEPT ![req[t].from] = loc[t].tmp]
    /\ Step(t, loc[t], "wd_entry")
    /\ UNCHANGED <<ledger, account_locks, idempotency_store, rate_limits,
                   locked, nLocks, nTx, now, req, client, history>>

\* lines 161-167: entry = {tx_id, type, amount, balance_after, timestamp}
WithdrawEntry(t) ==
    /\ pc[t] = "wd_entry"
    /\ nTx' = nTx + 1
    /\ Step(t, [loc[t] EXCEPT !.tx = nTx + 1, !.bal = accounts[req[t].from], !.stamp = now],
            "wd_append")
    /\ UNCHANGED <<globals, locked, nLocks, now, req, client, history>>

\* line 168: ledger[req.account_id].append(entry)
WithdrawAppend(t) ==
    /\ pc[t] = "wd_append"
    /\ IF Has(ledger, req[t].from)
       THEN /\ ledger' = [ledger EXCEPT ![req[t].from] = Append(@,
                    [tx_id |-> loc[t].tx, type |-> "withdrawal", amount |-> -req[t].amount,
                     balance_after |-> loc[t].bal, timestamp |-> loc[t].stamp])]
            /\ Step(t, [loc[t] EXCEPT !.status = 200], "wd_release")
       ELSE /\ ledger' = ledger
            /\ Step(t, [loc[t] EXCEPT !.status = 500, !.detail = "KeyError"], "wd_release")
    /\ UNCHANGED <<accounts, account_locks, idempotency_store, rate_limits,
                   locked, nLocks, nTx, now, req, client, history>>

\* the end of the with block, by return (line 170) or by the exception
WithdrawRelease(t) ==
    /\ pc[t] = "wd_release"
    /\ locked' = locked \ {loc[t].first}
    /\ Finish(t, loc[t].status, loc[t].detail, loc[t].tx)
    /\ UNCHANGED <<globals, nLocks, nTx, now, client>>

\* ------------------------------------------------------------------ transfer
\* The locks taken in the order the caller names the accounts (source first).
Unsorted(a, b) == <<a, b>>

\* line 201: first, second = sorted([req.from_account, req.to_account])
Sorted(a, b) == IF a <= b THEN <<a, b>> ELSE <<b, a>>

\* A ceiling that turns down the maximum itself.
OverLimitInclusive(n) == n >= PER_TRANSFER_MAX

\* line 182: req.amount > PER_TRANSFER_MAX
OverLimit(n) == n > PER_TRANSFER_MAX

\* lines 182-186: if req.amount > PER_TRANSFER_MAX: raise 400
TransferLimit(t) ==
    /\ pc[t] = "tr_limit"
    /\ IF OverLimit(req[t].amount)
       THEN /\ Finish(t, 400, "Per-transfer limit exceeded", 0)
            /\ UNCHANGED <<globals, locked, nLocks, nTx, now, client>>
       ELSE /\ Step(t, loc[t], "tr_idem")
            /\ UNCHANGED <<globals, locked, nLocks, nTx, now, req, client, history>>

\* The transfer recorded under transaction id x moved the amount of request r
\* from r's source to r's destination.
SameBody(r, x) ==
    /\ Has(ledger, r.from) /\ Has(ledger, r.to)
    /\ \E i \in DOMAIN ledger[r.from] :
            /\ ledger[r.from][i].tx_id = x /\ ledger[r.from][i].type = "transfer_out"
            /\ ledger[r.from][i].amount = -r.amount
    /\ \E i \in DOMAIN ledger[r.to] :
            ledger[r.to][i].tx_id = x /\ ledger[r.to][i].type = "transfer_in"

\* A lookup that binds the key to the request: a key that comes back with
\* another source, destination or amount is refused.
TransferIdempotencyBound(t) ==
    /\ pc[t] = "tr_idem"
    /\ IF req[t].key # NoKey /\ IdemHit(req[t].key)
       THEN /\ IF SameBody(req[t], idempotency_store[req[t].key].response.tx_id)
               THEN Finish(t, 200, "", idempotency_store[req[t].key].response.tx_id)
               ELSE Finish(t, 422, "Idempotency key reused", 0)
            /\ UNCHANGED <<globals, locked, nLocks, nTx, now, client>>
       ELSE /\ Step(t, [loc[t] EXCEPT !.arg = req[t].from, !.ret = "tr_ensure_to"], "ea_check")
            /\ UNCHANGED <<globals, locked, nLocks, nTx, now, req, client, history>>

\* A lookup placed after check_rate_limit: a cached response costs the source
\* a slot of its rate window.
TransferIdempotencyCounted(t) ==
    /\ pc[t] = "tr_idem"
    /\ IF req[t].key # NoKey /\ IdemHit(req[t].key)
       THEN /\ Finish(t, 200, "", idempotency_store[req[t].key].response.tx_id)
            /\ rate_limits' =
                    Put(rate_limits, req[t].from,
                        Append(IF Has(rate_limits, req[t].from)
                               THEN rate_limits[req[t].from] ELSE <<>>, now))
            /\ UNCHANGED <<accounts, ledger, account_locks, idempotency_store,
                           locked, nLocks, nTx, now, client>>
       ELSE /\ Step(t, [loc[t] EXCEPT !.arg = req[t].from, !.ret = "tr_ensure_to"], "ea_check")
            /\ UNCHANGED <<globals, locked, nLocks, nTx, now, req, client, history>>

\* lines 189-192: a supplied key with a cached, unexpired response returns it;
\* otherwise line 194: ensure_account(req.from_account)
TransferIdempotency(t) ==
    /\ pc[t] = "tr_idem"
    /\ IF req[t].key # NoKey /\ IdemHit(req[t].key)
       THEN /\ Finish(t, 200, "", idempotency_store[req[t].key].response.tx_id)
            /\ UNCHANGED <<globals, locked, nLocks, nTx, now, client>>
       ELSE /\ Step(t, [loc[t] EXCEPT !.arg = req[t].from, !.ret = "tr_ensure_to"], "ea_check")
            /\ UNCHANGED <<globals, locked, nLocks, nTx, now, req, client, history>>

\* check_rate_limit lines 73-81: read the clock and the stored window, drop the
\* old timestamps, raise 429 at the limit, else append now to the local list
RateLimitRead(t) ==
    /\ pc[t] = "tr_rate"
    /\ LET a == req[t].from
           timestamps == Recent(IF Has(rate_limits, a) THEN rate_limits[a] ELSE <<>>, now)
       IN IF Len(timestamps) >= RATE_LIMIT_PER_MINUTE
          THEN /\ Finish(t, 429, "Rate limit exceeded", 0)
               /\ UNCHANGED <<globals, locked, nLocks, nTx, now, client>>
          ELSE /\ Step(t, [loc[t] EXCEPT !.ts = Append(timestamps, now)], "tr_rate_write")
               /\ UNCHANGED <<globals, locked, nLocks, nTx, now, req, client, history>>

\* A limiter that charges the destination as well as the source.
RateLimitWriteBoth(t) ==
    /\ pc[t] = "tr_rate_write"
    /\ rate_limits' =
            Put(Put(rate_limits, req[t].from, loc[t].ts), req[t].to,
                Append(IF Has(rate_limits, req[t].to) /\ req[t].to # req[t].from
                       THEN rate_limits[req[t].to] ELSE loc[t].ts, now))
    /\ Step(t, [loc[t] EXCEPT !.ts = <<>>, !.arg = Sorted(req[t].from, req[t].to)[1],
                                !.ret = "tr_acquire1"], "gl_check")
    /\ UNCHANGED <<accounts, ledger, account_locks, idempotency_store,
                   locked, nLocks, nTx, now, req, client, history>>

\* check_rate_limit line 82: rate_limits[account_id] = timestamps; then the
\* first get_lock of line 202, on the smaller id of line 201
RateLimitWrite(t) ==
    /\ pc[t] = "tr_rate_write"
    /\ rate_limits' = Put(rate_limits, req[t].from, loc[t].ts)
    /\ Step(t, [loc[t] EXCEPT !.ts = <<>>, !.arg = Sorted(req[t].from, req[t].to)[1],
                                !.ret = "tr_acquire1"], "gl_check")
    /\ UNCHANGED <<accounts, ledger, account_locks, idempotency_store,
                   locked, nLocks, nTx, now, req, client, history>>

\* line 202: with get_lock(first) is entered; then get_lock(second) is called
TransferAcquireFirst(t) ==
    /\ pc[t] = "tr_acquire1"
    /\ loc[t].lock \notin locked
    /\ locked' = locked \cup {loc[t].lock}
    /\ Step(t, [loc[t] EXCEPT !.first = loc[t].lock, !.arg = Sorted(req[t].from, req[t].to)[2],
                                !.ret = "tr_acquire2"], "gl_check")
    /\ UNCHANGED <<globals, nLocks, nTx, now, req, client, history>>

\* line 202: with get_lock(second) is entered.  threading.Lock is not
\* reentrant: the thread blocks while the lock is held, by whomever.
TransferAcquireSecond(t) ==
    /\ pc[t] = "tr_acquire2"
    /\ loc[t].lock \notin locked
    /\ locked' = locked \cup {loc[t].lock}
    /\ Step(t, [loc[t] EXCEPT !.second = loc[t].lock], "tr_daily")
    /\ UNCHANGED <<globals, nLocks, nTx, now, req, client, history>>

\* lines 205-209: the daily transfer limit
TransferDailyCheck(t) ==
    /\ pc[t] = "tr_daily"
    /\ IF get_daily_transfer_total(req[t].from) + req[t].amount > DAILY_TRANSFER_LIMIT
       THEN Step(t, [loc[t] EXCEPT !.status = 400,
                                   !.detail = "Daily transfer limit exceeded"], "tr_release2")
       ELSE Step(t, loc[t], "tr_funds")
    /\ UNCHANGED <<globals, locked, nLocks, nTx, now, req, client, history>>

\* A funds check that gives the rate-limit slot back when it turns the
\* transfer down.
TransferFundsCheckRefunding(t) ==
    /\ pc[t] = "tr_funds"
    /\ IF accounts[req[t].from] < req[t].amount
       THEN /\ Step(t, [loc[t] EXCEPT !.status = 400, !.detail = "Insufficient funds"],
                    "tr_release2")
            /\ rate_limits' =
                    IF Has(rate_limits, req[t].from) /\ rate_limits[req[t].from] # <<>>
                    THEN Put(rate_limits, req[t].from,
                             SubSeq(rate_limits[req[t].from], 1,
                                    Len(rate_limits[req[t].from]) - 1))
                    ELSE rate_limits
       ELSE /\ Step(t, loc[t], "tr_debit_read")
            /\ UNCHANGED rate_limits
    /\ UNCHANGED <<accounts, ledger, account_locks, idempotency_store,
                   locked, nLocks, nTx, now, req, client, history>>

\* lines 212-213: sufficient funds
TransferFundsCheck(t) ==
    /\ pc[t] = "tr_funds"
    /\ IF accounts[req[t].from] < req[t].amount
       THEN Step(t, [loc[t] EXCEPT !.status = 400, !.detail = "Insufficient funds"],
                 "tr_release2")
       ELSE Step(t, loc[t], "tr_debit_read")
    /\ UNCHANGED <<globals, locked, nLocks, nTx, now, req, client, history>>

\* line 216, the read of accounts[req.from_account] -= req.amount
TransferDebitRead(t) ==
    /\ pc[t] = "tr_debit_read"
    /\ Step(t, [loc[t] EXCEPT !.tmp = accounts[req[t].from] - req[t].amount], "tr_debit_write")
    /\ UNCHANGED <<globals, locked, nLocks, nTx, now, req, client, history>>

\* line 216, the write
TransferDebitWrite(t) ==
    /\ pc[t] = "tr_debit_write"
    /\ accounts' = [accounts EXCEPT ![req[t].from] = loc[t].tmp]
    /\ Step(t, loc[t], "tr_credit_read")
    /\ UNCHANGED <<ledger, account_locks, idempotency_store, rate_limits,
                   locked, nLocks, nTx, now, req, client, history>>

\* line 217, the read of accounts[req.to_account] += req.amount
TransferCreditRead(t) ==
    /\ pc[t] = "tr_credit_read"
    /\ Step(t, [loc[t] EXCEPT !.tmp = accounts[req[t].to] + req[t].amount], "tr_credit_write")
    /\ UNCHANGED <<globals, locked, nLocks, nTx, now, req, client, history>>

\* line 217, the write
TransferCreditWrite(t) ==
    /\ pc[t] = "tr_credit_write"
    /\ accounts' = [accounts EXCEPT ![req[t].to] = loc[t].tmp]
    /\ Step(t, loc[t], "tr_ids")
    /\ UNCHANGED <<ledger, account_locks, idempotency_store, rate_limits,
                   locked, nLocks, nTx, now, req, client, history>>

\* lines 219-220: tx_id = str(uuid4()); timestamp = datetime.utcnow()
TransferIds(t) ==
    /\ pc[t] = "tr_ids"
    /\ nTx' = nTx + 1
    /\ Step(t, [loc[t] EXCEPT !.tx = nTx + 1, !.stamp = now], "tr_out")
    /\ UNCHANGED <<globals, locked, nLocks, now, req, client, history>>

\* lines 222-228: ledger[req.from_account].append({... transfer_out ...})
TransferAppendOut(t) ==
    /\ pc[t] = "tr_out"
    /\ IF Has(ledger, req[t].from)
       THEN /\ ledger' = [ledger EXCEPT ![req[t].from] = Append(@,
                    [tx_id |-> loc[t].tx, type |-> "transfer_out", amount |-> -req[t].amount,
                     balance_after |-> accounts[req[t].from], timestamp |-> loc[t].stamp])]
            /\ Step(t, loc[t], "tr_in")
       ELSE /\ ledger' = ledger
            /\ Step(t, [loc[t] EXCEPT !.status = 500, !.detail = "KeyError"], "tr_release2")
    /\ UNCHANGED <<accounts, account_locks, idempotency_store, rate_limits,
                   locked, nLocks, nTx, now, req, client, history>>

\* lines 230-236: ledger[req.to_account].append({... transfer_in ...})
TransferAppendIn(t) ==
    /\ pc[t] = "tr_in"
    /\ IF Has(ledger, req[t].to)
       THEN /\ ledger' = [ledger EXCEPT ![req[t].to] = Append(@,
                    [tx_id |-> loc[t].tx, type |-> "transfer_in", amount |-> req[t].amount,
                     balance_after |-> accounts[req[t].to], timestamp |-> loc[t].stamp])]
            /\ Step(t, [loc[t] EXCEPT !.status = 200], "tr_release2")
       ELSE /\ ledger' = ledger
            /\ Step(t, [loc[t] EXCEPT !.status = 500, !.detail = "KeyError"], "tr_release2")
    /\ UNCHANGED <<accounts, account_locks, idempotency_store, rate_limits,
                   locked, nLocks, nTx, now, req, client, history>>

\* acquire() and release() calls in place of the with statement: the release
\* is skipped when an exception leaves the block.
TransferReleaseSecondOnSuccess(t) ==
    /\ pc[t] = "tr_release2"
    /\ locked' = IF loc[t].status = 200 THEN locked \ {loc[t].second} ELSE locked
    /\ Step(t, [loc[t] EXCEPT !.second = 0], "tr_release1")
    /\ UNCHANGED <<globals, nLocks, nTx, now, req, client, history>>

\* the inner with of line 202 is left, normally or by an exception
TransferReleaseSecond(t) ==
    /\ pc[t] = "tr_release2"
    /\ locked' = locked \ {loc[t].second}
    /\ Step(t, [loc[t] EXCEPT !.second = 0], "tr_release1")
    /\ UNCHANGED <<globals, nLocks, nTx, now, req, client, history>>

\* The outer with is left, and a failure is stored under the key as well.
TransferReleaseFirstStoring(t) ==
    /\ pc[t] = "tr_release1"
    /\ locked' = locked \ {loc[t].first}
    /\ IF loc[t].status = 200
       THEN /\ Step(t, [loc[t] EXCEPT !.first = 0], "tr_store")
            /\ UNCHANGED <<req, history, globals>>
       ELSE /\ Finish(t, loc[t].status, loc[t].detail, 0)
            /\ idempotency_store' =
                    IF req[t].key # NoKey
                    THEN Put(idempotency_store, req[t].key,
                             [response |-> [tx_id |-> 0, status |-> "failed"],
                              expires_at |-> now + IDEMPOTENCY_TTL_SECONDS])
                    ELSE idempotency_store
            /\ UNCHANGED <<accounts, ledger, account_locks, rate_limits>>
    /\ UNCHANGED <<nLocks, nTx, now, client>>

\* the outer with of line 202 is left; an exception then leaves the handler
TransferReleaseFirst(t) ==
    /\ pc[t] = "tr_release1"
    /\ locked' = locked \ {loc[t].first}
    /\ IF loc[t].status = 200
       THEN /\ Step(t, [loc[t] EXCEPT !.first = 0], "tr_store")
            /\ UNCHANGED <<req, history>>
       ELSE Finish(t, loc[t].status, loc[t].detail, 0)
    /\ UNCHANGED <<globals, nLocks, nTx, now, client>>

\* lines 238-244: response = {tx_id, status}; store_idempotency under a
\* supplied key; return response
TransferStore(t) ==
    /\ pc[t] = "tr_store"
    /\ idempotency_store' =
            IF req[t].key # NoKey
            THEN Put(idempotency_store, req[t].key,
                     [response |-> [tx_id |-> loc[t].tx, status |-> "success"],
                      expires_at |-> now + IDEMPOTENCY_TTL_SECONDS])
            ELSE idempotency_store
    /\ Finish(t, 200, "", loc[t].tx)
    /\ UNCHANGED <<accounts, ledger, account_locks, rate_limits,
                   locked, nLocks, nTx, now, client>>

\* --------------------------------------------------------------- get_balance
\* lines 126-129 after ensure_account: return {account_id, balance}
BalanceReturn(t) ==
    /\ pc[t] = "bal_return"
    /\ IF Has(accounts, req[t].from)
       THEN FinishWith(t, 200, "", 0, [balance |-> accounts[req[t].from]])
       ELSE Finish(t, 500, "KeyError", 0)
    /\ UNCHANGED <<globals, locked, nLocks, nTx, now, client>>

\* ---------------------------------------------------------- get_transactions
\* line 256: entries = ledger[account_id][cursor: cursor + limit]
TransactionsSlice(t) ==
    /\ pc[t] = "txs_slice"
    /\ IF Has(ledger, req[t].from)
       THEN /\ Step(t, [loc[t] EXCEPT !.entries =
                        PySlice(ledger[req[t].from], req[t].cursor,
                                req[t].cursor + req[t].limit)], "txs_return")
            /\ UNCHANGED <<req, history>>
       ELSE Finish(t, 500, "KeyError", 0)
    /\ UNCHANGED <<globals, locked, nLocks, nTx, now, client>>

\* lines 257-266: total = len(ledger[account_id]); return the page
TransactionsReturn(t) ==
    /\ pc[t] = "txs_return"
    /\ IF Has(ledger, req[t].from)
       THEN LET total == Len(ledger[req[t].from])
                cursor == req[t].cursor
                limit == req[t].limit
            IN FinishWith(t, 200, "", 0,
                    [items |-> loc[t].entries,
                     total_transactions |-> total,
                     current_cursor |-> cursor,
                     next_cursor |-> IF cursor + limit < total
                                     THEN Some(cursor + limit) ELSE None,
                     has_more |-> (cursor + limit < total)])
       ELSE Finish(t, 500, "KeyError", 0)
    /\ UNCHANGED <<globals, locked, nLocks, nTx, now, client>>

\* ----------------------------------------------------------- account_summary
\* line 272: daily_total = get_daily_transfer_total(account_id)
SummaryDaily(t) ==
    /\ pc[t] = "sum_daily"
    /\ Step(t, [loc[t] EXCEPT !.daily = get_daily_transfer_total(req[t].from)], "sum_return")
    /\ UNCHANGED <<globals, locked, nLocks, nTx, now, req, client, history>>

\* lines 274-281: return the summary
SummaryReturn(t) ==
    /\ pc[t] = "sum_return"
    /\ IF Has(accounts, req[t].from) /\ Has(ledger, req[t].from)
       THEN FinishWith(t, 200, "", 0,
                [balance |-> accounts[req[t].from],
                 daily_transfer_total |-> loc[t].daily,
                 daily_transfer_limit |-> DAILY_TRANSFER_LIMIT,
                 daily_transfer_remaining |-> DAILY_TRANSFER_LIMIT - loc[t].daily,
                 transaction_count |-> Len(ledger[req[t].from])])
       ELSE Finish(t, 500, "KeyError", 0)
    /\ UNCHANGED <<globals, locked, nLocks, nTx, now, client>>

\* ------------------------------------------------------------ the program
ThreadStep(t) ==
    \/ Begin(t)
    \/ BalanceReturn(t) \/ TransactionsSlice(t) \/ TransactionsReturn(t)
    \/ SummaryDaily(t) \/ SummaryReturn(t)
    \/ EnsureCheck(t) \/ EnsureSetBalance(t) \/ EnsureSetLedger(t)
    \/ GetLockCheck(t) \/ GetLockCreate(t) \/ GetLockReturn(t)
    \/ DepositAcquire(t) \/ DepositRead(t) \/ DepositWrite(t) \/ DepositEntry(t)
    \/ DepositAppend(t) \/ DepositRelease(t)
    \/ WithdrawAcquire(t) \/ WithdrawCheck(t) \/ WithdrawRead(t) \/ WithdrawWrite(t)
    \/ WithdrawEntry(t) \/ WithdrawAppend(t) \/ WithdrawRelease(t)
    \/ TransferLimit(t) \/ TransferIdempotency(t) \/ RateLimitRead(t) \/ RateLimitWrite(t)
    \/ TransferAcquireFirst(t) \/ TransferAcquireSecond(t)
    \/ TransferDailyCheck(t) \/ TransferFundsCheck(t)
    \/ TransferDebitRead(t) \/ TransferDebitWrite(t)
    \/ TransferCreditRead(t) \/ TransferCreditWrite(t)
    \/ TransferIds(t) \/ TransferAppendOut(t) \/ TransferAppendIn(t)
    \/ TransferReleaseSecond(t) \/ TransferReleaseFirst(t) \/ TransferStore(t)

Next == StartPhase \/ Tick \/ \E t \in Threads : ThreadStep(t)

\* ------------------------------------------------------------ the workloads
\* A batch gives each thread the requests it issues one after the other.
Par(w1, w2) == [t \in Threads |-> IF t = 1 THEN w1 ELSE IF t = 2 THEN w2 ELSE <<>>]
Solo(w) == Par(w, <<>>)
Idle == Par(<<>>, <<>>)

MaxAmount == 5
Amounts == {2, MaxAmount}
K == "key-1"

\* Two requests touch account 1 for the first time at once.
FirstTouch ==
    { [phases |-> <<Par(<<DepositReq(1, MaxAmount)>>, <<r>>)>>, ticks |-> <<>>] :
        r \in {DepositReq(1, MaxAmount), WithdrawReq(1, MaxAmount),
               TransferReq(1, 2, MaxAmount, NoKey), TransferReq(2, 1, MaxAmount, NoKey)} }

\* A deposit followed by a withdrawal, against a concurrent withdrawal.
Overdraw ==
    { [phases |-> <<Par(<<DepositReq(1, MaxAmount), WithdrawReq(1, MaxAmount)>>,
                        <<WithdrawReq(1, MaxAmount)>>)>>, ticks |-> <<>>] }

\* TestTransfers.test_transfer_same_account
SelfTransfer ==
    { [phases |-> <<Solo(<<DepositReq(1, MaxAmount)>>),
                    Solo(<<TransferReq(1, 1, n, NoKey)>>)>>, ticks |-> <<>>] : n \in Amounts }

\* Transfers a -> b and b -> a at once, each account funded before or not.
Funding(fa, fb) ==
    (IF fa > 0 THEN <<DepositReq(1, fa)>> ELSE <<>>) \o
    (IF fb > 0 THEN <<DepositReq(2, fb)>> ELSE <<>>)

Opposite ==
    { [phases |-> <<Solo(Funding(fa, fb)),
                    Par(<<TransferReq(1, 2, x, NoKey)>>, <<TransferReq(2, 1, y, NoKey)>>)>>,
       ticks |-> <<>>] :
        fa \in {0, MaxAmount}, fb \in {0, MaxAmount}, x \in Amounts, y \in Amounts }

\* Two transfers under one fresh idempotency key at once, then a replay.
SameKey ==
    { [phases |-> <<Solo(<<DepositReq(1, 2 * MaxAmount)>>),
                    Par(<<TransferReq(1, 2, MaxAmount, K)>>, <<TransferReq(1, 2, MaxAmount, K)>>),
                    Solo(<<TransferReq(1, 2, MaxAmount, K)>>)>>,
       ticks |-> tk] : tk \in {<<>>, <<IDEMPOTENCY_TTL_SECONDS>>} }

\* TestConcurrency.test_concurrent_transfers_same_recipient
SameRecipient ==
    { [phases |-> <<Solo(<<DepositReq(1, MaxAmount), DepositReq(2, MaxAmount)>>),
                    Par(<<TransferReq(1, 3, MaxAmount, NoKey)>>,
                        <<TransferReq(2, 3, MaxAmount, NoKey)>>)>>, ticks |-> <<>>] }

\* TestConcurrency.test_concurrent_withdraw_and_transfer
WithdrawAndTransfer ==
    { [phases |-> <<Solo(<<DepositReq(1, 2 * MaxAmount)>>),
                    Par(<<WithdrawReq(1, MaxAmount)>>, <<TransferReq(1, 2, MaxAmount, NoKey)>>)>>,
       ticks |-> <<>>] }

\* n copies of request r, one after the other.
Repeat(r, n) == [i \in 1..n |-> r]

\* TestConcurrency.test_concurrent_transfers_same_sender, with all but two of
\* the transfers already made: the window holds one timestamp less than the
\* limit when two more transfers arrive at once, and a last one follows.
RateBurst ==
    { [phases |-> <<Solo(<<DepositReq(1, RATE_LIMIT_PER_MINUTE + 2)>>
                         \o Repeat(TransferReq(1, 2, 1, NoKey), RATE_LIMIT_PER_MINUTE - 1)),
                    Par(<<TransferReq(1, 2, 1, NoKey)>>, <<TransferReq(1, 3, 1, NoKey)>>),
                    Solo(<<TransferReq(1, 2, 1, NoKey)>>)>>,
       ticks |-> tk] : tk \in {<<>>, <<RATE_WINDOW_SECONDS>>} }

\* A read of an account while a deposit touches it for the first time.
ReadDuringCreate ==
    { [phases |-> <<Par(<<DepositReq(1, MaxAmount)>>, <<q>>)>>, ticks |-> <<>>] :
        q \in {BalanceReq(1), TransactionsReq(1, 1, 0), SummaryReq(1)} }

\* Transfers of the per-transfer maximum out of account 1, the first of
\* another thread arriving while account 1 is being funded.
DailyRace ==
    { [phases |-> <<Par(<<DepositReq(1, DAILY_TRANSFER_LIMIT + PER_TRANSFER_MAX),
                          TransferReq(1, 2, PER_TRANSFER_MAX, NoKey),
                          TransferReq(1, 2, PER_TRANSFER_MAX, NoKey)>>,
                        <<TransferReq(1, 3, PER_TRANSFER_MAX, NoKey)>>)>>,
       ticks |-> <<>>] }

Scenarios ==
    FirstTouch \cup Overdraw \cup SelfTransfer \cup Opposite \cup SameKey
        \cup SameRecipient \cup WithdrawAndTransfer \cup RateBurst
        \cup ReadDuringCreate

\* The module as imported (lines 36-41) and a client about to run a workload.
InitWith(S) ==
    /\ accounts = <<>>
    /\ ledger = <<>>
    /\ account_locks = <<>>
    /\ idempotency_store = <<>>
    /\ rate_limits = <<>>
    /\ locked = {}
    /\ nLocks = 0
    /\ nTx = 0
    /\ now = 0
    /\ pc = [t \in Threads |-> "idle"]
    /\ req = [t \in Threads |-> NoReq]
    /\ loc = [t \in Threads |-> Loc0]
    /\ todo = Idle
    /\ base = [accounts |-> <<>>, ledger |-> <<>>, idempotency_store |-> <<>>,
               rate_limits |-> <<>>, at |-> 0]
    /\ history = <<>>
    /\ \E s \in S : phases = s.phases /\ ticks = s.ticks

Init == InitWith(Scenarios)

Spec == Init /\ [][Next]_vars

\* The concurrent workloads and the race for the daily limit.
CapSpec == InitWith(Scenarios \cup DailyRace) /\ [][Next]_vars

\* ------------------------------------------------- one request at a time
MaxEntries == 3
MaxLimit == 3
MaxCursor == 4

\* The requests of w as batches of one: each is sent when the response to the
\* one before is in.
OneByOne(w) == [i \in DOMAIN w |-> Solo(<<w[i]>>)]

\* TestRateLimiting.test_rate_limit_10_per_minute and
\* test_rate_limit_per_account: twelve transfers out of account 1, the first
\* under a key, a replay of the first, and a transfer out of account 2; the
\* clock moves on by a minute, in two steps, at any point.
SeqRate ==
    { [phases |-> OneByOne(<<DepositReq(1, RATE_LIMIT_PER_MINUTE + 2),
                             TransferReq(1, 2, 1, K)>>
                           \o Repeat(TransferReq(1, 2, 1, NoKey), RATE_LIMIT_PER_MINUTE + 1)
                           \o <<TransferReq(1, 2, 1, K),
                                DepositReq(2, 2), TransferReq(2, 1, 1, NoKey)>>),
       ticks |-> tk] : tk \in {<<>>, <<RATE_WINDOW_SECONDS - 1, 1>>} }

\* Transfers out of an account that holds nothing, until the limiter answers.
SeqRejects ==
    { [phases |-> OneByOne(Repeat(TransferReq(1, 2, 1, NoKey), RATE_LIMIT_PER_MINUTE + 2)),
       ticks |-> tk] : tk \in {<<>>, <<RATE_WINDOW_SECONDS>>} }

\* TestAccountSummary.test_account_summary_with_transactions with amounts at
\* the limits: deposits, withdrawals and inbound transfers as large as the
\* daily limit before the outbound transfers of account 1.
InboundMenu ==
    {DepositReq(1, DAILY_TRANSFER_LIMIT), WithdrawReq(1, DAILY_TRANSFER_LIMIT),
     TransferReq(2, 1, PER_TRANSFER_MAX, NoKey), TransferReq(1, 2, PER_TRANSFER_MAX, NoKey)}

SeqInbound ==
    { [phases |-> OneByOne(<<DepositReq(1, DAILY_TRANSFER_LIMIT + PER_TRANSFER_MAX),
                             DepositReq(2, DAILY_TRANSFER_LIMIT + PER_TRANSFER_MAX), x, y,
                             TransferReq(1, 2, PER_TRANSFER_MAX, NoKey),
                             TransferReq(1, 3, PER_TRANSFER_MAX, NoKey),
                             TransferReq(1, 2, DAILY_TRANSFER_LIMIT - 2 * PER_TRANSFER_MAX, NoKey),
                             SummaryReq(1), SummaryReq(2)>>),
       ticks |-> tk] :
        x \in InboundMenu, y \in InboundMenu, tk \in {<<>>, <<SECONDS_PER_DAY>>} }

\* TestIdempotency.test_idempotency_key_prevents_duplicate: a transfer under
\* a key, then the same and other requests under that key, the clock moving
\* on by 24 hours, in two steps, at any point.
SeqExpiry ==
    { [phases |-> OneByOne(<<DepositReq(1, 3 * MaxAmount),
                             TransferReq(1, 2, MaxAmount, K), x, y>>),
       ticks |-> tk] :
        x \in {TransferReq(1, 2, MaxAmount, K), TransferReq(2, 1, 2, K),
                TransferReq(1, 2, MaxAmount, NoKey)},
        y \in {TransferReq(1, 2, MaxAmount, K), TransferReq(2, 1, 2, K),
                TransferReq(1, 3, 2 * MaxAmount, K)},
        tk \in {<<>>, <<IDEMPOTENCY_TTL_SECONDS - 1, 1>>} }

\* TestTransfers.test_transfer_exceeds_daily_limit, test_transfer_at_daily_limit
\* and their neighbours: four transfers out of a funded account, then its
\* summary; midnight may pass at any point.
DailyAmounts ==
    {1, DAILY_TRANSFER_LIMIT - 2 * PER_TRANSFER_MAX, PER_TRANSFER_MAX, DAILY_TRANSFER_LIMIT}

SeqDaily ==
    { [phases |-> OneByOne(<<DepositReq(1, DAILY_TRANSFER_LIMIT + PER_TRANSFER_MAX),
                             TransferReq(1, 2, w, NoKey), TransferReq(1, 3, x, NoKey),
                             TransferReq(1, 2, y, NoKey), TransferReq(1, 3, z, NoKey),
                             SummaryReq(1)>>),
       ticks |-> tk] :
        w \in DailyAmounts, x \in DailyAmounts, y \in DailyAmounts, z \in DailyAmounts,
        tk \in {<<>>, <<SECONDS_PER_DAY>>} }

\* Any three requests out of a menu of deposits, withdrawals, transfers and
\* reads on accounts 1 and 2 (TestDeposits, TestWithdrawals, TestTransfers).
Menu ==
    {DepositReq(1, MaxAmount), WithdrawReq(1, 2), WithdrawReq(1, MaxAmount), WithdrawReq(2, 2),
     TransferReq(1, 2, 2, NoKey), TransferReq(1, 2, MaxAmount, K), TransferReq(2, 1, 2, K),
     TransferReq(1, 1, 2, NoKey), TransferReq(1, 2, PER_TRANSFER_MAX, NoKey),
     TransferReq(1, 2, PER_TRANSFER_MAX + 1, K),
     BalanceReq(1), SummaryReq(2), TransactionsReq(2, 1, 0)}

SeqMixed ==
    { [phases |-> OneByOne(<<r1, r2, r3>>), ticks |-> <<>>] :
        r1 \in Menu, r2 \in Menu, r3 \in Menu }

\* TestTransactionHistory.test_pagination: a ledger of k entries and one page
\* request, the query parameters being any integers.
SeqPages ==
    { [phases |-> OneByOne(Repeat(DepositReq(1, 1), k) \o <<TransactionsReq(1, l, c)>>),
       ticks |-> <<>>] :
        k \in 0..MaxEntries, l \in 0..MaxLimit, c \in (-1)..MaxCursor }

Sequential ==
    SeqRate \cup SeqDaily \cup SeqMixed \cup SeqPages
        \cup SeqRejects \cup SeqInbound \cup SeqExpiry

\* A client that waits for each response before it sends the next request.
SeqSpec == InitWith(Sequential) /\ [][Next]_vars

\* Every thread that can take a step is scheduled eventually, and the client
\* goes on to its next batch; the clock is under no obligation.
Fairness == WF_vars(StartPhase) /\ \A t \in Threads : WF_vars(ThreadStep(t))

FairSpec == Init /\ [][Next]_vars /\ Fairness

\* ------------------------------------------------------------------ claims
Quiescent == \A t \in Threads : pc[t] = "idle"

\* The statements of thread t that run under the lock of account a: the with
\* blocks of deposit (137-146), withdraw (156-168) and transfer (202-236).
InSection(t, a) ==
    \/ /\ pc[t] \in {"dep_read", "dep_write", "dep_entry", "dep_append", "dep_release",
                     "wd_check", "wd_read", "wd_write", "wd_entry", "wd_append", "wd_release"}
       /\ req[t].from = a
    \/ /\ pc[t] \in {"tr_daily", "tr_funds", "tr_debit_read", "tr_debit_write",
                     "tr_credit_read", "tr_credit_write", "tr_ids", "tr_out", "tr_in",
                     "tr_release2"}
       /\ a \in {req[t].from, req[t].to}

\* C1. Conservation: whenever no request is in progress, the balance of every
\* account is the sum of the signed amounts of its ledger's entries.
C1_Conservation ==
    Quiescent =>
        \A a \in DOMAIN accounts :
            Has(ledger, a) /\ accounts[a] = SumAmounts(ledger[a])

\* C2. No balance is negative in any reachable state.
C2_NonNegative == \A a \in DOMAIN accounts : accounts[a] >= 0

\* C7. Requests naming one account serialize on one lock: no two threads are
\* inside the locked section (balance update plus ledger append) of the same
\* account at the same time.
C7_MutualExclusion ==
    \A a \in AccountIds : \A t1, t2 \in Threads :
        t1 # t2 => ~(InSection(t1, a) /\ InSection(t2, a))

\* C8. An account is initialised at most once: whenever line 110 or line 111
\* of ensure_account runs, the entry it writes is not there yet.
C8_InitialisedOnce ==
    [][\A t \in Threads :
        /\ (pc[t] = "ea_balance" /\ pc'[t] # "ea_balance") => ~Has(accounts, loc[t].arg)
        /\ (pc[t] = "ea_ledger" /\ pc'[t] # "ea_ledger") => ~Has(ledger, loc[t].arg)]_vars

\* ----------------------------------------------------- the client's view
Last(s) == s[Len(s)]

\* The events since the current batch started.
Batch == SubSeq(history, base.at + 1, Len(history))

Calls(h) == SelectSeq(h, LAMBDA e : e.ev = "call")
Rets(h) == SelectSeq(h, LAMBDA e : e.ev = "ret")

\* What a request that returned success and did its work adds to account a.
Delta(e, a) ==
    IF e.ev = "ret" /\ e.status = 200 /\ ~e.cached
    THEN CASE e.req.op = "deposit" -> IF e.req.from = a THEN e.req.amount ELSE 0
           [] e.req.op = "withdraw" -> IF e.req.from = a THEN -e.req.amount ELSE 0
           [] OTHER -> (IF e.req.to = a THEN e.req.amount ELSE 0)
                       - (IF e.req.from = a THEN e.req.amount ELSE 0)
    ELSE 0

RECURSIVE Effect(_, _)
Effect(h, a) == IF h = <<>> THEN 0 ELSE Delta(h[1], a) + Effect(Tail(h), a)

\* get_balance: an account never seen reads as 0.
Balance(a) == IF Has(accounts, a) THEN accounts[a] ELSE 0
BaseBalance(a) == IF Has(base.accounts, a) THEN base.accounts[a] ELSE 0

SelfTransferReady(t) ==
    /\ pc[t] = "tr_limit"
    /\ req[t].op = "transfer" /\ req[t].from = req[t].to
    /\ req[t].amount <= PER_TRANSFER_MAX
    /\ Balance(req[t].from) >= req[t].amount

SelfTransferDone(t) ==
    /\ pc[t] = "idle"
    /\ history # <<>> /\ Last(history).ev = "ret" /\ Last(history).t = t
    /\ Last(history).status = 200
    /\ Last(history).req.from = Last(history).req.to
    /\ Balance(Last(history).req.from) = BaseBalance(Last(history).req.from)
    /\ locked = {}

\* C3. A self-transfer within the limits and funded completes with success,
\* the balance unchanged and the lock free.
C3_SelfTransferCompletes ==
    \A t \in Threads : SelfTransferReady(t) ~> SelfTransferDone(t)

Opp(t1, t2) ==
    /\ req[t1].op = "transfer" /\ req[t2].op = "transfer"
    /\ req[t1].from = req[t2].to /\ req[t1].to = req[t2].from
    /\ req[t1].from # req[t1].to

\* The batch was a transfer A -> B against a transfer B -> A, both returned
\* success.
OppositeBothSucceeded ==
    /\ Quiescent
    /\ Len(Calls(Batch)) = 2 /\ Len(Rets(Batch)) = 2
    /\ LET c == Calls(Batch) IN
        /\ c[1].req.op = "transfer" /\ c[2].req.op = "transfer"
        /\ c[1].req.from = c[2].req.to /\ c[1].req.to = c[2].req.from
        /\ c[1].req.from # c[1].req.to
    /\ \A i \in 1..2 : Rets(Batch)[i].status = 200

\* C4. Opposite transfers A -> B and B -> A both complete under fair
\* scheduling, and when both succeed the balances of A and B are the initial
\* balances plus the net effect of the two.
C4_OppositeTransfers ==
    /\ \A t1 \in Threads : (\E t2 \in Threads : Opp(t1, t2)) ~> (pc[t1] = "idle")
    /\ [](OppositeBothSucceeded =>
            \A a \in AccountIds : Balance(a) = BaseBalance(a) + Effect(Batch, a))

\* C4, witness: opposite transfers of different amounts have both returned
\* success.
C4_Witness ==
    /\ OppositeBothSucceeded
    /\ Calls(Batch)[1].req.amount # Calls(Batch)[2].req.amount

\* The positions of history where a transfer under key k returned success
\* after doing the transfer itself (not from the idempotency cache).
Executions(k) ==
    { i \in DOMAIN history :
        /\ history[i].ev = "ret" /\ history[i].req.op = "transfer"
        /\ history[i].req.key = k /\ history[i].status = 200 /\ ~history[i].cached }

Keys == { history[i].req.key : i \in DOMAIN history } \ {NoKey}

\* No idempotency record can have expired yet: all were stored at or after
\* time 0.
NothingExpired == now < IDEMPOTENCY_TTL_SECONDS

\* C5. Of the transfers carrying one fresh key at most one executes the
\* transfer, and while the key is valid its stored response never changes.
C5_OneExecutionPerKey ==
    /\ [](NothingExpired => \A k \in Keys : Cardinality(Executions(k)) <= 1)
    /\ [][\A k \in DOMAIN idempotency_store :
            idempotency_store[k].expires_at > now =>
                idempotency_store'[k].response = idempotency_store[k].response]_vars

\* The response to the call made at position j of history, if it is in.
ResponseTo(j) ==
    { l \in DOMAIN history :
        /\ l > j /\ history[l].ev = "ret" /\ history[l].t = history[j].t
        /\ \A m \in (j + 1)..(l - 1) : history[m].t # history[j].t }

\* C6. Once a transfer under key K has succeeded, every later call with K and
\* the same body, within 24 hours, returns the same tx_id and status from the
\* cache (no balance changes, no ledger entry is appended).
C6_IdempotentReplay ==
    NothingExpired =>
        \A i, j \in DOMAIN history :
            ( /\ i < j
              /\ history[i].ev = "ret" /\ history[i].req.op = "transfer"
              /\ history[i].req.key # NoKey /\ history[i].status = 200
              /\ history[j].ev = "call" /\ history[j].req = history[i].req )
            => \A l \in ResponseTo(j) :
                    /\ history[l].status = 200
                    /\ history[l].tx_id = history[i].tx_id
                    /\ history[l].cached

\* C9. No lost updates: when a batch of concurrent requests has completed,
\* every balance is the balance before the batch plus the effects of exactly
\* the requests that returned success.
C9_NoLostUpdates ==
    Quiescent => \A a \in AccountIds : Balance(a) = BaseBalance(a) + Effect(Batch, a)

\* Transfers from source a that the rate limiter let through / turned down.
Passed(a) ==
    { i \in DOMAIN history :
        /\ history[i].ev = "ret" /\ history[i].req.op = "transfer"
        /\ history[i].req.from = a /\ ~history[i].cached
        /\ history[i].status # 429
        /\ history[i].detail # "Per-transfer limit exceeded" }
Succeeded(a) == { i \in Passed(a) : history[i].status = 200 }
RateLimited(a) ==
    { i \in DOMAIN history :
        /\ history[i].ev = "ret" /\ history[i].req.op = "transfer"
        /\ history[i].req.from = a /\ history[i].status = 429 }
Window(a) == Recent(IF Has(rate_limits, a) THEN rate_limits[a] ELSE <<>>, now)

\* Every call so far fell into one 60-second window (the clock started at 0).
OneWindow == now < RATE_WINDOW_SECONDS

\* C10. Within one 60-second window at most 10 transfers of a source pass the
\* rate limiter, however they interleave; once more than 10 have been
\* answered exactly 10 succeeded and the others were rate-limited; and the
\* window never holds more than 10 recent timestamps.
C10_ConcurrentRateLimit ==
    OneWindow =>
        \A a \in AccountIds :
            /\ Cardinality(Passed(a)) <= RATE_LIMIT_PER_MINUTE
            /\ Cardinality(Passed(a) \cup RateLimited(a)) > RATE_LIMIT_PER_MINUTE =>
                    Cardinality(Succeeded(a)) = RATE_LIMIT_PER_MINUTE
            /\ Len(Window(a)) <= RATE_LIMIT_PER_MINUTE

\* ------------------------------------------- one request at a time: claims
\* With one request at a time the call of the response at position i of
\* history is the event before it.
CallOf(i) == history[i - 1]

\* The transfers from a that the limiter let through before the attempt
\* answered at position i and that may, respectively must, still be in its
\* window: the limiter reads the clock somewhere between call and response.
MaybeInWindow(a, i) ==
    { j \in Passed(a) : j < i /\ CallOf(i).time - history[j].time < RATE_WINDOW_SECONDS }
SurelyInWindow(a, i) ==
    { j \in Passed(a) : j < i /\ history[i].time - CallOf(j).time < RATE_WINDOW_SECONDS }

\* C11. Rate limit boundary, one request at a time: an attempt with fewer than
\* 10 earlier passes of its source within the last 60 seconds passes the
\* limiter (the first 10 of a window, and later ones once enough timestamps
\* are 60 seconds old or more); an attempt with 10 passes within the last 60
\* seconds is rejected with 429.
C11_RateLimitBoundary ==
    \A a \in AccountIds : \A i \in Passed(a) \cup RateLimited(a) :
        /\ Cardinality(MaybeInWindow(a, i)) < RATE_LIMIT_PER_MINUTE => i \in Passed(a)
        /\ Cardinality(SurelyInWindow(a, i)) >= RATE_LIMIT_PER_MINUTE => i \in RateLimited(a)

\* C11, witness: ten transfers passed, the eleventh was rate-limited, and a
\* later one passed after the clock had moved on.
C11_Witness ==
    \E i \in RateLimited(1) : \E j \in Passed(1) :
        /\ i < j
        /\ Cardinality({k \in Passed(1) : k < i}) = RATE_LIMIT_PER_MINUTE
        /\ history[j].time >= RATE_WINDOW_SECONDS

\* Thread t takes a step.
Steps(t) == pc'[t] # pc[t] \/ loc'[t] # loc[t]

\* The last event of history is the response to a transfer of amount n during
\* which the clock did not move, and it has not moved since.
JustAnswered(n) ==
    /\ Len(history) >= 2 /\ Last(history).ev = "ret"
    /\ Last(history).req.op = "transfer" /\ Last(history).req.amount = n
    /\ Last(history).time = now /\ CallOf(Len(history)).time = now

\* Why a transfer that was turned down was not funded or not within the rate
\* and daily limits: the answer is justified by the state it left behind.
Justified(e) ==
    \/ e.status = 200
    \/ e.detail = "Insufficient funds" /\ Balance(e.req.from) < e.req.amount
    \/ /\ e.detail = "Daily transfer limit exceeded"
       /\ get_daily_transfer_total(e.req.from) + e.req.amount > DAILY_TRANSFER_LIMIT
    \/ e.status = 429 /\ Len(Window(e.req.from)) >= RATE_LIMIT_PER_MINUTE

Entries(a) == IF Has(ledger, a) THEN ledger[a] ELSE <<>>
BaseEntries(a) == IF Has(base.ledger, a) THEN base.ledger[a] ELSE <<>>

\* A withdrawal or transfer that was turned down: insufficient funds, a limit
\* or the rate limiter.
Rejected(e) ==
    e.ev = "ret" /\ e.req.op \in {"withdraw", "transfer"} /\ e.status \in {400, 429}

\* The request just answered was sent alone, after all earlier responses.
AnsweredAlone == Quiescent /\ Len(Batch) = 2 /\ Last(history).ev = "ret"

\* C14. No partial effects on rejection: when a withdrawal or a transfer has
\* been turned down, every account reads the balance and the ledger it read
\* before the call (0 and empty if never seen), and the idempotency store is
\* what it was.
C14_NoPartialEffects ==
    (AnsweredAlone /\ Rejected(Last(history))) =>
        /\ \A a \in AccountIds : Balance(a) = BaseBalance(a) /\ Entries(a) = BaseEntries(a)
        /\ idempotency_store = base.idempotency_store

\* C14, witness: a transfer under a key, from an account holding less than
\* the amount to an account never seen before, was turned down.
C14_Witness ==
    /\ AnsweredAlone /\ Rejected(Last(history))
    /\ Last(history).detail = "Insufficient funds"
    /\ Last(history).req.key # NoKey
    /\ BaseBalance(Last(history).req.from) > 0
    /\ ~Has(base.accounts, Last(history).req.to)

\* C16. Withdraw: a withdrawal fails with insufficient funds exactly when the
\* balance is below the amount; on success the balance goes down by the
\* amount and one withdrawal entry, with amount -amount and balance_after the
\* new balance, is appended; on failure nothing changes; no other account
\* changes either way.
C16_Withdraw ==
    (AnsweredAlone /\ Last(history).req.op = "withdraw") =>
        LET e == Last(history)
            a == e.req.from
            n == e.req.amount
        IN /\ e.status \in {200, 400}
           /\ e.status = 400 <=> BaseBalance(a) < n
           /\ e.status = 400 =>
                /\ e.detail = "Insufficient funds"
                /\ Balance(a) = BaseBalance(a) /\ Entries(a) = BaseEntries(a)
           /\ e.status = 200 =>
                /\ Balance(a) = BaseBalance(a) - n
                /\ Len(Entries(a)) = Len(BaseEntries(a)) + 1
                /\ SubSeq(Entries(a), 1, Len(BaseEntries(a))) = BaseEntries(a)
                /\ Last(Entries(a)).type = "withdrawal"
                /\ Last(Entries(a)).amount = -n
                /\ Last(Entries(a)).balance_after = Balance(a)
                /\ Last(Entries(a)).tx_id = e.tx_id
           /\ \A b \in AccountIds \ {a} :
                Balance(b) = BaseBalance(b) /\ Entries(b) = BaseEntries(b)

\* C16, witness: the whole balance was withdrawn and the account holds 0,
\* while another account holds money.
C16_Witness ==
    /\ AnsweredAlone /\ Last(history).req.op = "withdraw" /\ Last(history).status = 200
    /\ BaseBalance(Last(history).req.from) = Last(history).req.amount
    /\ Balance(Last(history).req.from) = 0
    /\ \E b \in AccountIds : Balance(b) > 0

\* The transfer entries of all ledgers, as <<account, position>>.
Legs(type) ==
    { p \in UNION { {<<a, i>> : i \in DOMAIN ledger[a]} : a \in DOMAIN ledger } :
        ledger[p[1]][p[2]].type = type }
Leg(p) == ledger[p[1]][p[2]]

\* Entry q is the other leg of entry p.
Matches(p, q) ==
    /\ Leg(q).tx_id = Leg(p).tx_id
    /\ Leg(q).timestamp = Leg(p).timestamp
    /\ Leg(q).amount = -Leg(p).amount

RECURSIVE SumLegs(_)
SumLegs(S) == IF S = {} THEN 0 ELSE LET p == CHOOSE p \in S : TRUE
                                     IN Leg(p).amount + SumLegs(S \ {p})

NoTransferInProgress == \A t \in Threads : req[t].op # "transfer"

\* C15. Transfer pairing: whenever no transfer is in progress, every
\* transfer_out entry has exactly one matching transfer_in entry (same tx_id,
\* same timestamp, opposite amount), every transfer_in entry exactly one
\* matching transfer_out entry, and the amounts of all transfer entries sum
\* to zero.
C15_TransferPairing ==
    NoTransferInProgress =>
        /\ \A p \in Legs("transfer_out") :
                Cardinality({q \in Legs("transfer_in") : Matches(p, q)}) = 1
        /\ \A q \in Legs("transfer_in") :
                Cardinality({p \in Legs("transfer_out") : Matches(q, p)}) = 1
        /\ SumLegs(Legs("transfer_out") \cup Legs("transfer_in")) = 0

\* C17. A single transfer of exactly 25,000 from an account that holds at
\* least 25,000 and has made no outbound transfer that day succeeds, and a
\* transfer of 1 from the same account right after it is rejected with the
\* daily-transfer-limit error.
C17_SingleTransferAtDailyLimit ==
    /\ (AnsweredAlone /\ JustAnswered(DAILY_TRANSFER_LIMIT)
            /\ BaseBalance(Last(history).req.from) >= DAILY_TRANSFER_LIMIT
            /\ DailyTotalOf(BaseEntries(Last(history).req.from), DateOf(now)) = 0)
        => Last(history).status = 200
    /\ (AnsweredAlone /\ JustAnswered(1) /\ Len(history) >= 4
            /\ history[Len(history) - 2].ev = "ret"
            /\ history[Len(history) - 2].req.op = "transfer"
            /\ history[Len(history) - 2].req.from = Last(history).req.from
            /\ history[Len(history) - 2].req.amount = DAILY_TRANSFER_LIMIT
            /\ history[Len(history) - 2].status = 200
            /\ history[Len(history) - 2].time = now)
        => Last(history).detail = "Daily transfer limit exceeded"

\* The entries of s at the 0-based positions c .. min(c + l, Len(s)) - 1.
Page(s, c, l) == [k \in 1..(Min(c + l, Len(s)) - c) |-> s[c + k]]

\* C18. Pagination: get_transactions with cursor >= 0 and limit > 0 on a
\* ledger of total entries returns the entries at positions cursor ..
\* min(cursor + limit, total) - 1 in append order (none for a cursor at or
\* beyond total), total_transactions = total, has_more exactly when
\* cursor + limit < total, next_cursor = cursor + limit when has_more and None
\* otherwise; it is no error and changes no balance and no ledger.
C18_Pagination ==
    (AnsweredAlone /\ Last(history).req.op = "transactions"
        /\ Last(history).req.cursor >= 0 /\ Last(history).req.limit > 0) =>
        LET e == Last(history)
            c == e.req.cursor
            l == e.req.limit
            total == Len(BaseEntries(e.req.from))
        IN /\ e.status = 200
           /\ e.body.items = Page(BaseEntries(e.req.from), c, l)
           /\ c >= total => e.body.items = <<>>
           /\ e.body.total_transactions = total
           /\ e.body.has_more <=> c + l < total
           /\ e.body.next_cursor = IF e.body.has_more THEN Some(c + l) ELSE None
           /\ \A a \in AccountIds : Balance(a) = BaseBalance(a) /\ Entries(a) = BaseEntries(a)

\* C18, witness: a page from the middle of a ledger was returned, with more
\* to come.
C18_Witness ==
    /\ AnsweredAlone /\ Last(history).req.op = "transactions"
    /\ Last(history).req.cursor > 0 /\ Last(history).req.limit > 0
    /\ Last(history).body.items # <<>>
    /\ Last(history).body.has_more

\* The accounts whose lock, in account_locks, is the lock object l.
Owners(l) == { a \in DOMAIN account_locks : account_locks[a] = l }

\* The lock objects thread t holds.
Held(t) == {loc[t].first, loc[t].second} \ {0}

InWith(t) ==
    pc[t] \in {"dep_read", "dep_write", "dep_entry", "dep_append", "dep_release",
               "wd_check", "wd_read", "wd_write", "wd_entry", "wd_append", "wd_release"}

\* C19. Lock ordering: a transfer that holds one lock and asks for another
\* never asks for the lock of an account that sorts before the account of the
\* lock it holds; a transfer between distinct accounts that holds both holds
\* the lock of the smaller id as first and that of the larger as second,
\* whichever is the source; a deposit or withdrawal holds exactly one lock
\* inside its with block and none outside.
C19_LockOrdering ==
    \A t \in Threads :
        /\ (req[t].op = "transfer" /\ pc[t] = "tr_acquire2") =>
                \A h \in Owners(loc[t].first) : \A w \in Owners(loc[t].lock) : ~(w < h)
        /\ (req[t].op = "transfer" /\ req[t].from # req[t].to /\ loc[t].second # 0) =>
                /\ loc[t].first # 0
                /\ \A h \in Owners(loc[t].first) : \A w \in Owners(loc[t].second) : h < w
        /\ req[t].op \in {"deposit", "withdraw"} =>
                /\ Cardinality(Held(t)) = (IF InWith(t) THEN 1 ELSE 0)
                /\ Held(t) \subseteq locked

\* C19, witness: a transfer from the larger to the smaller id holds both
\* locks, that of its destination as first.
C19_Witness ==
    \E t \in Threads :
        /\ req[t].op = "transfer" /\ req[t].from > req[t].to /\ pc[t] = "tr_daily"
        /\ Owners(loc[t].first) = {req[t].to}
        /\ Owners(loc[t].second) = {req[t].from}

\* s is a prefix of r.
IsPrefix(s, r) == Len(s) <= Len(r) /\ SubSeq(r, 1, Len(s)) = s

\* C20. Append-only ledger: across every step the ledger of every account
\* before the step is a prefix of its ledger after the step.
C20_AppendOnly ==
    [][\A a \in DOMAIN ledger : Has(ledger', a) /\ IsPrefix(ledger[a], ledger'[a])]_vars

\* Thread t appends to the ledger of account a in this step.
AppendsTo(t, a) ==
    /\ Steps(t) /\ Has(ledger, a) /\ Has(ledger', a)
    /\ Len(ledger'[a]) = Len(ledger[a]) + 1

\* The timestamps of the ledger of account a increase strictly.
StrictlyTimed(a) ==
    \A i, j \in DOMAIN Entries(a) :
        i < j => Entries(a)[i].timestamp < Entries(a)[j].timestamp

\* C21. Per-account ordering: while an operation is inside the with block of
\* account a, which it entered by acquiring a's lock, the ledger of a changes
\* only by that operation's own append, so that entries appear in the order
\* of lock acquisition; and the timestamps of every ledger increase strictly
\* in append order.
C21_PerAccountOrdering ==
    /\ [][\A t \in Threads : \A a \in AccountIds :
            (InSection(t, a) /\ Entries(a)' # Entries(a)) => AppendsTo(t, a)]_vars
    /\ [](\A a \in AccountIds : StrictlyTimed(a))

\* The record stored under key k when the request just answered was sent had
\* not expired when it was answered (nor, then, when it was looked up).
LiveSinceCall(k) ==
    Has(base.idempotency_store, k) /\ base.idempotency_store[k].expires_at > now

\* The request just answered was a transfer under a key that reached the
\* lookup of lines 189-192 and found an unexpired record there.
ReplayAnswered ==
    /\ AnsweredAlone /\ Last(history).req.op = "transfer"
    /\ Last(history).req.key # NoKey /\ ~OverLimit(Last(history).req.amount)
    /\ LiveSinceCall(Last(history).req.key)

\* C22. Replay is a pure read: a transfer under a key with an unexpired cached
\* response is answered with that response (success, the stored transaction
\* id), and accounts, ledgers, locks, rate windows and the idempotency store
\* are what they were before the call, also when the source's rate window is
\* full; no step of such a call acquires or creates a lock, creates an
\* account or writes a rate window.
C22_ReplayIsPureRead ==
    /\ [](ReplayAnswered =>
            /\ Last(history).status = 200 /\ Last(history).cached
            /\ Last(history).tx_id =
                    base.idempotency_store[Last(history).req.key].response.tx_id
            /\ accounts = base.accounts /\ ledger = base.ledger
            /\ rate_limits = base.rate_limits
            /\ idempotency_store = base.idempotency_store
            /\ locked = {})
    /\ [][\A t \in Threads :
            (/\ Steps(t) /\ pc[t] \in {"tr_limit", "tr_idem"}
             /\ req[t].key # NoKey /\ ~OverLimit(req[t].amount) /\ IdemHit(req[t].key)) =>
                /\ UNCHANGED <<globals, locked, nLocks, nTx>>
                /\ pc[t] = "tr_idem" => pc'[t] = "idle"]_vars

\* C22, witness: a replay was answered from the cache while the rate window of
\* its source held 10 timestamps of the last 60 seconds.
C22_Witness ==
    /\ ReplayAnswered /\ Last(history).cached
    /\ Len(Window(Last(history).req.from)) >= RATE_LIMIT_PER_MINUTE
    /\ RateLimited(Last(history).req.from) # {}

\* The request just answered was a transfer of at most 10,000 under a key,
\* and the clock did not move between its call and now.
KeyedAnswered ==
    /\ AnsweredAlone /\ Last(history).req.op = "transfer"
    /\ Last(history).req.key # NoKey /\ ~OverLimit(Last(history).req.amount)
    /\ Last(history).time = now /\ CallOf(Len(history)).time = now

\* The record under key k before the request just answered, if unexpired now.
LiveRecord(k) ==
    { base.idempotency_store[kk] :
        kk \in { x \in DOMAIN base.idempotency_store :
                    x = k /\ now < base.idempotency_store[x].expires_at } }

\* No earlier response carried the transaction id of the last one.
FreshTxId ==
    /\ Last(history).tx_id # 0
    /\ \A i \in 1..(Len(history) - 1) : history[i].tx_id # Last(history).tx_id

\* C23. Idempotency expiry: a transfer under a key is answered from the cache
\* exactly when a record exists for the key and the time is strictly before
\* its expiry, and then with the record's response; every record written
\* expires 24 hours after the time of writing; from the expiry instant on the
\* transfer is carried out as without a record: it is answered as the
\* balances and limits require, and when it succeeds it moves the money,
\* carries a transaction id no response carried before and leaves under the
\* key a record of that id expiring 24 hours from now.
C23_IdempotencyExpiry ==
    /\ [](KeyedAnswered =>
            LET e == Last(history) IN
            /\ e.cached <=> LiveRecord(e.req.key) # {}
            /\ e.cached =>
                    \A r \in LiveRecord(e.req.key) :
                        e.status = 200 /\ e.tx_id = r.response.tx_id
            /\ ~e.cached => Justified(e)
            /\ (~e.cached /\ e.status = 200) =>
                    /\ FreshTxId
                    /\ Balance(e.req.from) = BaseBalance(e.req.from) - e.req.amount
                    /\ Balance(e.req.to) = BaseBalance(e.req.to) + e.req.amount
                    /\ idempotency_store[e.req.key] =
                            [response |-> [tx_id |-> e.tx_id, status |-> "success"],
                             expires_at |-> now + IDEMPOTENCY_TTL_SECONDS])
    /\ [][\A k \in DOMAIN idempotency_store' :
            (k \notin DOMAIN idempotency_store
                \/ idempotency_store'[k] # idempotency_store[k]) =>
                    idempotency_store'[k].expires_at = now + IDEMPOTENCY_TTL_SECONDS]_vars

\* C23, witness: at the very instant a record expired a transfer under its key
\* was carried out, with a new transaction id, and the record was replaced.
C23_Witness ==
    /\ KeyedAnswered /\ ~Last(history).cached /\ Last(history).status = 200
    /\ Has(base.idempotency_store, Last(history).req.key)
    /\ base.idempotency_store[Last(history).req.key].expires_at = now
    /\ idempotency_store[Last(history).req.key].response.tx_id
            # base.idempotency_store[Last(history).req.key].response.tx_id
    /\ idempotency_store[Last(history).req.key].expires_at = now + IDEMPOTENCY_TTL_SECONDS

\* The rate window of account a before the request just answered.
BaseWindow(a) == IF Has(base.rate_limits, a) THEN base.rate_limits[a] ELSE <<>>

\* The request just answered was sent alone and the clock did not move
\* between its call and now.
AnsweredAtOnce ==
    AnsweredAlone /\ Last(history).time = now /\ CallOf(Len(history)).time = now

\* The response e is that of a transfer the rate limiter let through.
PassedLimiter(e) ==
    /\ e.req.op = "transfer" /\ ~e.cached /\ e.status # 429
    /\ e.detail # "Per-transfer limit exceeded"

\* C24. Rate limiter scope: a rate window is written only by a transfer, in
\* check_rate_limit, and only the window of that transfer's source; only a
\* transfer is ever inside check_rate_limit, and when it is there no balance
\* and no ledger has changed since its call; a transfer that gets past the
\* ceiling and the idempotency lookup leaves exactly one new timestamp in its
\* source's window (the limiter ran once) unless the limiter turned it down,
\* every other request leaves all rate windows as they were, and the limiter
\* turns a transfer down only when its own source's window is full.
C24_RateLimiterScope ==
    /\ [][rate_limits' # rate_limits =>
            \E t \in Threads :
                /\ Steps(t) /\ req[t].op = "transfer" /\ pc[t] = "tr_rate_write"
                /\ \A a \in DOMAIN rate_limits' \ {req[t].from} :
                        Has(rate_limits, a) /\ rate_limits'[a] = rate_limits[a]]_vars
    /\ [](\A t \in Threads :
            pc[t] \in {"tr_rate", "tr_rate_write"} =>
                /\ req[t].op = "transfer"
                /\ Len(Batch) = 1 =>
                        \A a \in AccountIds :
                            Balance(a) = BaseBalance(a) /\ Entries(a) = BaseEntries(a))
    /\ [](AnsweredAtOnce =>
            LET e == Last(history) IN
            /\ rate_limits =
                    IF PassedLimiter(e)
                    THEN Put(base.rate_limits, e.req.from,
                             Append(Recent(BaseWindow(e.req.from), now), now))
                    ELSE base.rate_limits
            /\ e.status = 429 =>
                    /\ e.req.op = "transfer"
                    /\ Len(Recent(BaseWindow(e.req.from), now)) >= RATE_LIMIT_PER_MINUTE)

\* C24, witness (test_rate_limit_per_account): while the window of account 1
\* is full and has had an attempt turned down, a transfer out of account 2
\* into account 1 succeeded, leaving one timestamp in the window of account 2
\* and the window of account 1 as it was.
C24_Witness ==
    /\ AnsweredAtOnce /\ PassedLimiter(Last(history)) /\ Last(history).status = 200
    /\ Last(history).req.from = 2 /\ Last(history).req.to = 1
    /\ Len(Window(1)) >= RATE_LIMIT_PER_MINUTE /\ RateLimited(1) # {}
    /\ rate_limits[2] = <<now>> /\ rate_limits[1] = base.rate_limits[1]

\* The amounts of the transfers out of account a that the responses of h
\* report as carried out on day d.
RECURSIVE Outbound(_, _, _)
Outbound(h, a, d) ==
    IF h = <<>> THEN 0
    ELSE (IF /\ h[1].ev = "ret" /\ h[1].req.op = "transfer" /\ h[1].req.from = a
             /\ h[1].status = 200 /\ ~h[1].cached /\ DateOf(h[1].time) = d
          THEN h[1].req.amount ELSE 0) + Outbound(Tail(h), a, d)

\* No request was in progress at midnight: every response so far came on the
\* day of its call.
SettledDays ==
    \A i \in DOMAIN history :
        history[i].ev = "ret" =>
            \E j \in 1..(i - 1) :
                /\ history[j].ev = "call" /\ history[j].t = history[i].t
                /\ \A l \in (j + 1)..(i - 1) : history[l].t # history[i].t
                /\ DateOf(history[j].time) = DateOf(history[i].time)

\* C25. The daily outbound total counts only outbound transfers: with no
\* request in progress the daily total of every account is the sum of the
\* amounts of the transfers out of it carried out today, and the summary
\* reports that sum and what it leaves of the limit; a deposit, a withdrawal
\* or an inbound transfer of any size leaves the total as it was; and a
\* transfer the limiter let through is turned down for the daily limit
\* exactly when today's earlier outbound transfers of its source plus its
\* amount exceed the limit.
C25_DailyTotalCountsOutbound ==
    (Quiescent /\ SettledDays) =>
        /\ \A a \in AccountIds :
                get_daily_transfer_total(a) = Outbound(history, a, DateOf(now))
        /\ AnsweredAtOnce =>
            LET e == Last(history) IN
            /\ e.req.op = "summary" =>
                    /\ e.body.daily_transfer_total =
                            Outbound(history, e.req.from, DateOf(now))
                    /\ e.body.daily_transfer_remaining =
                            DAILY_TRANSFER_LIMIT - Outbound(history, e.req.from, DateOf(now))
            /\ \A a \in AccountIds :
                    (e.req.op # "transfer" \/ e.req.from # a) =>
                        get_daily_transfer_total(a)
                            = DailyTotalOf(BaseEntries(a), DateOf(now))
            /\ PassedLimiter(e) =>
                    (e.detail = "Daily transfer limit exceeded"
                        <=> Outbound(SubSeq(history, 1, base.at), e.req.from, DateOf(now))
                                + e.req.amount > DAILY_TRANSFER_LIMIT)

\* C25, witness: account 1 withdrew and received as much as the daily limit
\* today, by a withdrawal and by inbound transfers, and a transfer out of it
\* was then carried out, the first of the day.
C25_Witness ==
    /\ AnsweredAtOnce /\ SettledDays
    /\ PassedLimiter(Last(history)) /\ Last(history).status = 200
    /\ Last(history).req.from = 1
    /\ Outbound(history, 1, DateOf(now)) = Last(history).req.amount
    /\ \E i, j \in DOMAIN BaseEntries(1) :
            /\ BaseEntries(1)[i].type = "withdrawal"
            /\ BaseEntries(1)[j].type = "transfer_in"
            /\ DateOf(BaseEntries(1)[i].timestamp) = DateOf(now)
            /\ DateOf(BaseEntries(1)[j].timestamp) = DateOf(now)
            /\ Abs(BaseEntries(1)[i].amount) >= DAILY_TRANSFER_LIMIT
    /\ DailyTotalAnyType(BaseEntries(1), DateOf(now)) + Last(history).req.amount
            > DAILY_TRANSFER_LIMIT

\* Thread t returns in this step: its handler's response is recorded.
Returns(t) == pc[t] # "idle" /\ pc'[t] = "idle"

\* C26. Locks are released on every path: every lock that is held is held by
\* a request still inside its with block, so a thread that has returned holds
\* none; the step by which a deposit, withdrawal or transfer returns, with
\* success or with an error raised under the locks, leaves none of the locks
\* it held locked; and the idempotency store is written only by a thread that
\* holds no lock.
C26_LocksReleased ==
    /\ [](locked = UNION { Held(t) : t \in Threads })
    /\ [](\A t \in Threads : pc[t] \in {"idle", "tr_store"} => Held(t) = {})
    /\ [][\A t \in Threads : Returns(t) => Held(t) \cap locked' = {}]_vars
    /\ [][idempotency_store' # idempotency_store =>
            \E t \in Threads :
                Steps(t) /\ pc[t] = "tr_store" /\ Held(t) = {} /\ loc[t].status = 200]_vars

\* C26, witness: a transfer that had taken both locks was turned down for the
\* daily limit and has returned; neither lock is held.
C26_Witness ==
    /\ history # <<>>
    /\ Last(history).ev = "ret" /\ Last(history).req.op = "transfer"
    /\ Last(history).detail = "Daily transfer limit exceeded"
    /\ Has(account_locks, Last(history).req.from)
    /\ Has(account_locks, Last(history).req.to)
    /\ account_locks[Last(history).req.from] \notin locked
    /\ account_locks[Last(history).req.to] \notin locked
    /\ pc[Last(history).t] = "idle"

\* The response e turns a transfer down after the rate limiter let it through.
RejectedAfterLimiter(e) ==
    /\ PassedLimiter(e) /\ e.status = 400
    /\ e.detail \in {"Insufficient funds", "Daily transfer limit exceeded"}

\* The attempts of account a that were turned down after the limiter, before
\* the response at position i, and called less than 60 seconds before it.
RecentRejections(a, i) ==
    { j \in SurelyInWindow(a, i) : RejectedAfterLimiter(history[j]) }

\* C27. Rate-limit slots are not refunded: a transfer turned down for the
\* daily limit or for insufficient funds leaves its timestamp in the window
\* of its source; an attempt that reaches the limiter when 10 such attempts
\* of its source were made in the last 60 seconds is rate-limited; and an
\* attempt the limiter turns down leaves the stored rate windows as they were.
C27_SlotsNotRefunded ==
    AnsweredAlone =>
        LET e == Last(history) IN
        /\ (AnsweredAtOnce /\ RejectedAfterLimiter(e)) =>
                /\ rate_limits[e.req.from] =
                        Append(Recent(BaseWindow(e.req.from), now), now)
                /\ Len(Window(e.req.from)) = Len(Recent(BaseWindow(e.req.from), now)) + 1
        /\ (/\ e.req.op = "transfer" /\ ~e.cached
             /\ e.detail # "Per-transfer limit exceeded"
             /\ Cardinality(RecentRejections(e.req.from, Len(history)))
                    >= RATE_LIMIT_PER_MINUTE) => e.status = 429
        /\ e.status = 429 => rate_limits = base.rate_limits

\* C27, witness: 10 transfers out of an account were turned down for
\* insufficient funds, none succeeded, and the next was rate-limited, the
\* stored window being left as it was.
C27_Witness ==
    /\ AnsweredAtOnce /\ Last(history).status = 429
    /\ Succeeded(Last(history).req.from) = {}
    /\ Cardinality(RecentRejections(Last(history).req.from, Len(history)))
            = RATE_LIMIT_PER_MINUTE
    /\ rate_limits = base.rate_limits
    /\ Len(rate_limits[Last(history).req.from]) = RATE_LIMIT_PER_MINUTE

\* C28. Balance snapshots are consistent: in every ledger the balance_after
\* of each entry is the sum of the signed amounts of the entries up to and
\* including it, and with no operation in progress the balance_after of the
\* last entry is the account's balance.
C28_BalanceSnapshots ==
    \A a \in AccountIds :
        /\ \A i \in DOMAIN Entries(a) :
                Entries(a)[i].balance_after = SumAmounts(SubSeq(Entries(a), 1, i))
        /\ (Quiescent /\ Entries(a) # <<>>) =>
                Last(Entries(a)).balance_after = Balance(a)

\* The responses, before the one at position i, of the transfers that were
\* carried out under key k.
CarriedOut(k, i) ==
    { j \in 1..(i - 1) :
        /\ history[j].ev = "ret" /\ history[j].req.op = "transfer"
        /\ history[j].req.key = k /\ history[j].status = 200 /\ ~history[j].cached }

\* The request just answered was a transfer of at most 10,000 under a key
\* under which a transfer with another source, destination or amount was
\* last carried out, called less than 24 hours ago: j is that transfer's
\* response.
ReusedKey(j) ==
    /\ AnsweredAlone /\ Last(history).req.op = "transfer"
    /\ Last(history).req.key # NoKey /\ ~OverLimit(Last(history).req.amount)
    /\ j \in CarriedOut(Last(history).req.key, Len(history))
    /\ \A l \in CarriedOut(Last(history).req.key, Len(history)) : l <= j
    /\ history[j].req # Last(history).req
    /\ now - CallOf(j).time < IDEMPOTENCY_TTL_SECONDS

\* C29. The idempotency key is not bound to the request body: a transfer of
\* at most 10,000 under a key under which a transfer succeeded within the
\* last 24 hours is answered with that transfer's transaction id though its
\* source, destination or amount differ, and it moves no money: balances and
\* ledgers are what they were before the call.
C29_KeyNotBoundToBody ==
    \A j \in DOMAIN history :
        ReusedKey(j) =>
            /\ Last(history).status = 200 /\ Last(history).cached
            /\ Last(history).tx_id = history[j].tx_id
            /\ \A a \in AccountIds :
                    Balance(a) = BaseBalance(a) /\ Entries(a) = BaseEntries(a)
            /\ accounts = base.accounts

\* C29, witness: a key under which an amount went from account 1 to account
\* 2 came back with another amount from account 2 to account 1.
C29_Witness ==
    \E j \in DOMAIN history :
        /\ ReusedKey(j)
        /\ history[j].req.from = Last(history).req.to
        /\ history[j].req.to = Last(history).req.from
        /\ history[j].req.amount # Last(history).req.amount
        /\ Last(history).tx_id = history[j].tx_id

\* The days on which account a has ledger entries.
Days(a) == { DateOf(ledger[a][i].timestamp) : i \in DOMAIN ledger[a] }

\* C12. Daily cap: in every reachable state the transfer_out entries of one
\* account dated one UTC day sum to at most 25,000, and no summary reports a
\* negative daily_transfer_remaining; the daily check lets a transfer through
\* that brings the total to exactly 25,000, and turns every transfer down once
\* the total is 25,000.
C12_DailyCap ==
    /\ [](\A a \in DOMAIN ledger : \A d \in Days(a) :
            DailyTotalOf(ledger[a], d) <= DAILY_TRANSFER_LIMIT)
    /\ [](\A i \in DOMAIN history :
            (history[i].ev = "ret" /\ history[i].req.op = "summary" /\ history[i].status = 200)
                => history[i].body.daily_transfer_remaining >= 0)
    /\ [][\A t \in Threads :
            (pc[t] = "tr_daily" /\ pc'[t] # "tr_daily") =>
                LET total == get_daily_transfer_total(req[t].from) IN
                /\ total + req[t].amount = DAILY_TRANSFER_LIMIT => pc'[t] = "tr_funds"
                /\ total = DAILY_TRANSFER_LIMIT =>
                        loc'[t].detail = "Daily transfer limit exceeded"]_vars

====
